---- MODULE Spec2Model ----
(***************************************************************************)
(* Control daemon of the Small Radio Telescope (srt/daemon/daemon.py).     *)
(*                                                                         *)
(* The daemon is one Python process with six threads that share the        *)
(* attributes of one SmallRadioTelescopeDaemon object without any lock:    *)
(* the main thread (command interpreter and pointing operations), the      *)
(* ephemeris loop, the rotor loop, the command intake, the status          *)
(* publisher and the parameter relay.  Every read or write of a shared     *)
(* attribute is one step of its thread, so that the interleavings the      *)
(* interpreter allows are the interleavings of the model.                  *)
(*                                                                         *)
(* Angles are whole degrees; strings the code parses are tuples of         *)
(* one-character strings; None is the empty tuple.                         *)
(***************************************************************************)
EXTENDS Integers, Sequences, FiniteSets, TLC

---------------------------------------------------------------------------
(* Bounds of the model.                                                    *)

\* number of command lines the network delivers in one run
MaxCommands == 2
\* number of times the ephemeris collaborator moves the sky
MaxSkyTime == 2
\* degrees the motor stub travels per position poll, per axis
MotorStep == 40
\* entries the outbound parameter queue may hold before producers wait
MaxQueue == 12
\* number of validation errors the motor driver reports in one run
MaxDriverErrors == 2

---------------------------------------------------------------------------
(* Configuration (config_dict of __init__).                                *)

az_limits == <<10, 60>>
el_limits == <<0, 80>>
stow_location == <<10, 0>>
cal_location == <<30, 20>>
beamwidth == 6
radio_num_bins == 2
temp_sys == 3
temp_cal == 1

None == <<>>

---------------------------------------------------------------------------
(* Arithmetic helpers.                                                     *)

Abs(x) == IF x < 0 THEN -x ELSE x

Sign(x) == IF x < 0 THEN -1 ELSE IF x > 0 THEN 1 ELSE 0

\* operator.add mapped over two pairs
add(a, b) == <<a[1] + b[1], a[2] + b[2]>>

\* a / b rounded to the nearest integer (b > 0)
RoundDiv(a, b) == Sign(a) * ((2 * Abs(a) + b) \div (2 * b))

\* every number too large for the model's integers is this one value
Huge == 2000000000

\* 1000 * cos(d degrees), d in 0..90
CosTable ==
  << 1000, 1000, 999, 999, 998, 996, 995, 993, 990, 988, 985, 982, 978, 974,
     970, 966, 961, 956, 951, 946, 940, 934, 927, 921, 914, 906, 899, 891,
     883, 875, 866, 857, 848, 839, 829, 819, 809, 799, 788, 777, 766, 755,
     743, 731, 719, 707, 695, 682, 669, 656, 643, 629, 616, 602, 588, 574,
     559, 545, 530, 515, 500, 485, 469, 454, 438, 423, 407, 391, 375, 358,
     342, 326, 309, 292, 276, 259, 242, 225, 208, 191, 174, 156, 139, 122,
     105, 87, 70, 52, 35, 17, 0 >>

\* 1000 * np.cos(d * np.pi / 180.0) for -180 <= d <= 180
CosMilli(d) ==
  LET a == Abs(d)
  IN  IF a <= 90 THEN CosTable[a + 1] ELSE -CosTable[(180 - a) + 1]

\* num / np.cos(...) with num given in thousandths: floating point cos is
\* never exactly zero, so a quotient by cos(90 degrees) is finite and huge
DivByCos(numMilli, d) ==
  LET c == CosMilli(d)
  IN  IF c = 0 THEN Sign(numMilli) * Huge
      ELSE IF c > 0 THEN RoundDiv(numMilli, c)
      ELSE -RoundDiv(numMilli, -c)

---------------------------------------------------------------------------
(* Collaborators' pure functions.                                          *)

\* Rotor.angles_within_bounds
angles_within_bounds(az, el) ==
  /\ az_limits[1] <= az /\ az <= az_limits[2]
  /\ el_limits[1] <= el /\ el <= el_limits[2]

\* utilities.functions.azel_within_range: both axes within the tolerance,
\* which is below one degree
azel_within_range(actual, desired) ==
  /\ Abs(actual[1] - desired[1]) < 1
  /\ Abs(actual[2] - desired[2]) < 1

\* one axis of the motor stub moving toward its commanded angle
StepToward(from, to) ==
  IF Abs(to - from) <= MotorStep THEN to ELSE from + Sign(to - from) * MotorStep

---------------------------------------------------------------------------
(* Python string and number functions the command interpreter uses, on     *)
(* tuples of one-character strings.                                        *)

Digits == <<"0", "1", "2", "3", "4", "5", "6", "7", "8", "9">>

UpperCase ==
  <<"A", "B", "C", "D", "E", "F", "G", "H", "I", "J", "K", "L", "M",
    "N", "O", "P", "Q", "R", "S", "T", "U", "V", "W", "X", "Y", "Z">>

LowerCase ==
  <<"a", "b", "c", "d", "e", "f", "g", "h", "i", "j", "k", "l", "m",
    "n", "o", "p", "q", "r", "s", "t", "u", "v", "w", "x", "y", "z">>

IsDigit(c) == \E i \in 1..10 : Digits[i] = c

DigitVal(c) == (CHOOSE i \in 1..10 : Digits[i] = c) - 1

LowerChar(c) ==
  IF \E i \in 1..26 : UpperCase[i] = c
  THEN LowerCase[CHOOSE i \in 1..26 : UpperCase[i] = c]
  ELSE c

\* str.lower
Lower(s) == [i \in 1..Len(s) |-> LowerChar(s[i])]

\* s[i:] with a 0-based i
From(s, i) == SubSeq(s, i + 1, Len(s))

\* str.startswith
StartsWith(s, p) == Len(p) <= Len(s) /\ SubSeq(s, 1, Len(p)) = p

\* str.endswith
EndsWith(s, p) ==
  Len(p) <= Len(s) /\ SubSeq(s, Len(s) - Len(p) + 1, Len(s)) = p

\* str.split(sep) for a one-character sep: empty fields are kept
RECURSIVE Split(_, _)
Split(s, sep) ==
  IF \A i \in 1..Len(s) : s[i] # sep THEN <<s>>
  ELSE LET i == CHOOSE k \in 1..Len(s) :
                  s[k] = sep /\ \A m \in 1..(k - 1) : s[m] # sep
       IN  <<SubSeq(s, 1, i - 1)>> \o Split(SubSeq(s, i + 1, Len(s)), sep)

\* str.strip of blanks
RECURSIVE Strip(_)
Strip(s) ==
  IF s = <<>> THEN s
  ELSE IF s[1] = " " THEN Strip(Tail(s))
  ELSE IF s[Len(s)] = " " THEN Strip(SubSeq(s, 1, Len(s) - 1))
  ELSE s

\* str.replace(old, new): every non-overlapping occurrence, left to right
RECURSIVE Replace(_, _, _)
Replace(s, old, new) ==
  IF s = <<>> THEN s
  ELSE IF StartsWith(s, old) THEN new \o Replace(From(s, Len(old)), old, new)
  ELSE <<s[1]>> \o Replace(Tail(s), old, new)

AllDigits(s) == \A i \in 1..Len(s) : IsDigit(s[i])

\* str.isnumeric, for ASCII text
IsNumeric(s) == s # <<>> /\ AllDigits(s)

\* value of a digit string; ten digits or more is beyond the model's integers
RECURSIVE NatVal(_)
NatVal(s) ==
  IF s = <<>> THEN 0
  ELSE IF Len(s) >= 10 THEN Huge
  ELSE 10 * NatVal(SubSeq(s, 1, Len(s) - 1)) + DigitVal(s[Len(s)])

Unsigned(s) == IF s # <<>> /\ s[1] \in {"-", "+"} THEN Tail(s) ELSE s

\* float(s) succeeds: sign, digits, optionally a point and digits
FloatOk(s) ==
  LET parts == Split(Unsigned(s), ".")
  IN  /\ Len(parts) \in {1, 2}
      /\ \A i \in 1..Len(parts) : AllDigits(parts[i])
      /\ \E i \in 1..Len(parts) : parts[i] # <<>>

\* float(s), for s with FloatOk(s); the model's numbers are whole, digits
\* after the point are dropped
Float(s) ==
  LET parts == Split(Unsigned(s), ".")
      v == NatVal(parts[1])
  IN  IF s[1] = "-" THEN -v ELSE v

\* x * pow(10, 6)
TimesMillion(x) ==
  IF Abs(x) >= 2000 THEN Sign(x) * Huge ELSE x * 1000000

\* what time.sleep(x) does: it returns, or raises for a negative length or
\* for one beyond the platform's time range (about 9.2e9 seconds)
sleep(x) ==
  IF x < 0 THEN "ValueError"
  ELSE IF x >= Huge THEN "OverflowError"
  ELSE "returns"

---------------------------------------------------------------------------
(* The sky, as the ephemeris collaborator computes it.                     *)

Sun == <<"S", "u", "n">>

Objects == {Sun}

\* EphemerisTracker.get_all_azimuth_elevation after t sky movements: the Sun
\* drifts in azimuth, comes near the upper azimuth limit and then leaves the
\* limits
SkyAt(t) ==
  [o \in Objects |->
     IF t = 0 THEN <<30, 40>> ELSE IF t = 1 THEN <<57, 40>> ELSE <<66, 40>>]

---------------------------------------------------------------------------
(* State.                                                                  *)

VARIABLES
  \* attributes of SmallRadioTelescopeDaemon
  rotor_location, rotor_destination, rotor_offsets, rotor_cmd_location,
  ephemeris_locations, ephemeris_cmd_location,
  radio_queue, command_queue, command_error_logs,
  radio_center_frequency, radio_sample_frequency,
  radio_save_raw_task, radio_save_spec_task,
  cal_values, cal_power,
  \* collaborators
  tracker_time,       \* the ephemeris tracker's table is SkyAt(tracker_time)
  motor_azel,         \* where the motor is
  motor_cmd,          \* the pair the motor driver was last told to reach
  rpc_up,             \* the signal-processing endpoint accepts connections
  calibration_file,   \* content of calibration.json
  received,           \* command lines the command socket has delivered
  \* threads: position in the code and local variables
  main_pc, frame, keep_running,
  eph_pc, eph_frame,
  rotor_pc, current_rotor_cmd_location,
  relay_pc, relay_item,
  status              \* the dictionary update_status sent last

pointing_vars ==
  <<rotor_destination, rotor_offsets, rotor_cmd_location, ephemeris_cmd_location>>

radio_vars ==
  <<radio_center_frequency, radio_sample_frequency, radio_save_raw_task,
    radio_save_spec_task, cal_values, cal_power, calibration_file>>

main_vars == <<main_pc, frame, keep_running>>

eph_vars == <<eph_pc, eph_frame, ephemeris_locations, tracker_time>>

rotor_vars ==
  <<rotor_pc, current_rotor_cmd_location, rotor_location, motor_azel, motor_cmd>>

relay_vars == <<relay_pc, relay_item, rpc_up>>

vars ==
  <<pointing_vars, radio_vars, main_vars, eph_vars, rotor_vars, relay_vars,
    radio_queue, command_queue, command_error_logs, received, status>>

\* local variables of the main thread; a field is meaningful from the
\* statement that assigns it to the return of the function it belongs to
NoFrame ==
  [ op |-> "none", object_id |-> None, scan |-> 0,
    new_rotor_destination |-> <<0, 0>>, new_rotor_offsets |-> <<0, 0>>,
    new_rotor_cmd_location |-> <<0, 0>>, caller |-> "none",
    arg |-> <<0, 0>>, name |-> None, exc |-> "none" ]

NoEphFrame ==
  [ new_rotor_destination |-> <<0, 0>>, new_rotor_cmd_location |-> <<0, 0>> ]

NoItem == <<"none", 0>>

\* a calibration profile: cal_values for radio_num_bins bins, and cal_pwr
\* (powers in thousandths); the default is 1.0 per bin and 1 / (Tsys + Tcal)
DefaultProfile ==
  [cal_values |-> [i \in 1..radio_num_bins |-> 1],
   cal_pwr |-> 1000 \div (temp_sys + temp_cal)]
StoredProfile ==
  [cal_values |-> [i \in 1..radio_num_bins |-> i + 1], cal_pwr |-> 5000]

\* __init__, with the given content of calibration.json
InitWith(file) ==
  /\ ephemeris_locations = SkyAt(0)
  /\ tracker_time = 0
  /\ ephemeris_cmd_location = None
  /\ rotor_location = stow_location
  /\ rotor_destination = stow_location
  /\ rotor_offsets = <<0, 0>>
  /\ rotor_cmd_location = add(stow_location, <<0, 0>>)
  /\ motor_azel = stow_location
  /\ motor_cmd = stow_location
  /\ radio_queue = <<>>
  /\ radio_save_raw_task = "None"
  /\ radio_save_spec_task = "None"
  /\ radio_center_frequency = 1420000000
  /\ radio_sample_frequency = 2000000
  /\ calibration_file = file
  /\ cal_values = IF calibration_file = "profile"
                  THEN StoredProfile.cal_values ELSE DefaultProfile.cal_values
  /\ cal_power = IF calibration_file = "profile"
                 THEN StoredProfile.cal_pwr ELSE DefaultProfile.cal_pwr
  /\ command_queue = <<>>
  /\ command_error_logs = <<>>
  /\ received = 0
  /\ rpc_up = TRUE
  /\ main_pc = "srt_daemon_main"
  /\ frame = NoFrame
  /\ keep_running = TRUE
  /\ eph_pc = "not started"
  /\ eph_frame = NoEphFrame
  /\ rotor_pc = "not started"
  /\ current_rotor_cmd_location = stow_location
  /\ relay_pc = "not started"
  /\ relay_item = NoItem
  /\ status = None

\* log_message: the message is kept, the time stamp is not
log_message(message) ==
  command_error_logs' = Append(command_error_logs, message)

\* radio_queue.put
put(item) ==
  /\ Len(radio_queue) < MaxQueue
  /\ radio_queue' = Append(radio_queue, item)

---------------------------------------------------------------------------
(* srt_daemon_main, lines 559-600: the start-up parameters are logged and  *)
(* queued, then the five threads are started.                              *)

StartupParams ==
  << <<"freq", radio_center_frequency>>,
     <<"samp_rate", radio_sample_frequency>>,
     <<"motor_az", rotor_location[1]>>,
     <<"motor_el", rotor_location[2]>>,
     <<"soutrack", <<"at_stow">> >>,
     <<"tsys", temp_sys>>,
     <<"tcal", temp_cal>>,
     <<"cal_pwr", cal_power>>,
     <<"cal_values", cal_values>>,
     <<"is_running", TRUE>> >>

Startup ==
  /\ main_pc = "srt_daemon_main"
  /\ command_error_logs' =
       command_error_logs \o [i \in 1..Len(StartupParams) |-> "Setting"]
  /\ radio_queue' = radio_queue \o StartupParams
  /\ eph_pc' = "417"
  /\ rotor_pc' = "453"
  /\ relay_pc' = "546"
  /\ main_pc' = "606"
  /\ UNCHANGED <<pointing_vars, radio_vars, frame, keep_running, eph_frame,
                 ephemeris_locations, tracker_time, current_rotor_cmd_location,
                 rotor_location, motor_azel, motor_cmd, relay_item, rpc_up,
                 command_queue, received, status>>

---------------------------------------------------------------------------
(* update_rotor_status: the Rotor Reconciliation Loop.                     *)

\* Rotor.get_azimuth_elevation on the motor stub: the motor has travelled
\* one poll's worth toward the commanded pair
MotorAfterPoll ==
  <<StepToward(motor_azel[1], motor_cmd[1]), StepToward(motor_azel[2], motor_cmd[2])>>

\* a loop that, out of range, polls without commanding the move
RotorSample_not_commanding ==
  /\ rotor_pc = "453"
  /\ current_rotor_cmd_location' = rotor_cmd_location
  /\ IF ~azel_within_range(rotor_location, rotor_cmd_location)
     THEN /\ rotor_pc' = "465"
          /\ UNCHANGED <<rotor_location, motor_azel, motor_cmd>>
     ELSE /\ motor_azel' = MotorAfterPoll
          /\ rotor_location' = MotorAfterPoll
          /\ rotor_pc' = "475"
          /\ UNCHANGED motor_cmd
  /\ UNCHANGED <<pointing_vars, radio_vars, main_vars, eph_vars, relay_vars,
                 radio_queue, command_queue, command_error_logs, received, status>>

\* lines 453-459 and 474: sample the commanded position; out of range of the
\* observed one, command the move; in range, poll the position
RotorSample ==
  /\ rotor_pc = "453"
  /\ current_rotor_cmd_location' = rotor_cmd_location
  /\ IF ~azel_within_range(rotor_location, rotor_cmd_location)
     THEN /\ motor_cmd' = rotor_cmd_location
          /\ rotor_pc' = "465"
          /\ UNCHANGED <<rotor_location, motor_azel>>
     ELSE /\ motor_azel' = MotorAfterPoll
          /\ rotor_location' = MotorAfterPoll
          /\ rotor_pc' = "475"
          /\ UNCHANGED motor_cmd
  /\ UNCHANGED <<pointing_vars, radio_vars, main_vars, eph_vars, relay_vars,
                 radio_queue, command_queue, command_error_logs, received, status>>

\* line 465: poll the position while moving
RotorPoll ==
  /\ rotor_pc = "465"
  /\ motor_azel' = MotorAfterPoll
  /\ rotor_location' = MotorAfterPoll
  /\ rotor_pc' = "466"
  /\ UNCHANGED <<pointing_vars, radio_vars, main_vars, eph_vars, relay_vars,
                 current_rotor_cmd_location, motor_cmd,
                 radio_queue, command_queue, command_error_logs, received, status>>

\* lines 466 and 475: publish the observed azimuth
RotorPutAz ==
  /\ rotor_pc \in {"466", "475"}
  /\ put(<<"motor_az", rotor_location[1]>>)
  /\ rotor_pc' = IF rotor_pc = "466" THEN "469" ELSE "476"
  /\ UNCHANGED <<pointing_vars, radio_vars, main_vars, eph_vars, relay_vars,
                 current_rotor_cmd_location, rotor_location, motor_azel,
                 motor_cmd, command_queue, command_error_logs, received, status>>

\* lines 469-472 and 460-464, or 476-477: publish the observed elevation;
\* while moving, poll again unless the position is in range or the
\* 10-second window is over
RotorPutEl ==
  /\ rotor_pc \in {"469", "476"}
  /\ put(<<"motor_el", rotor_location[2]>>)
  /\ \E window_over \in BOOLEAN :
       rotor_pc' =
         IF rotor_pc = "469"
            /\ ~azel_within_range(rotor_location, current_rotor_cmd_location)
            /\ ~window_over
         THEN "465" ELSE "453"
  /\ UNCHANGED <<pointing_vars, radio_vars, main_vars, eph_vars, relay_vars,
                 current_rotor_cmd_location, rotor_location, motor_azel,
                 motor_cmd, command_queue, command_error_logs, received, status>>

update_rotor_status == RotorSample \/ RotorPoll \/ RotorPutAz \/ RotorPutEl

\* str(e) of the two exceptions that lines 478-481 catch
DriverErrors == {"rotor AssertionError", "rotor ValueError"}

DriverErrorCount ==
  Cardinality({i \in DOMAIN command_error_logs :
                 command_error_logs[i] \in DriverErrors})

\* a rotor loop that an error of set_azimuth_elevation ends
RotorSetFails_ending_the_loop ==
  /\ rotor_pc = "453"
  /\ ~azel_within_range(rotor_location, rotor_cmd_location)
  /\ DriverErrorCount < MaxDriverErrors
  /\ current_rotor_cmd_location' = rotor_cmd_location
  /\ \E e \in DriverErrors : rotor_pc' = e
  /\ UNCHANGED <<pointing_vars, radio_vars, main_vars, eph_vars, relay_vars,
                 rotor_location, motor_azel, motor_cmd, command_error_logs,
                 radio_queue, command_queue, received, status>>

\* lines 453-457 and 478-481: out of range, set_azimuth_elevation raises
\* AssertionError or ValueError and the motor is not given the pair; the
\* handler logs str(e) and `while True` starts the next iteration
RotorSetFails ==
  /\ rotor_pc = "453"
  /\ ~azel_within_range(rotor_location, rotor_cmd_location)
  /\ DriverErrorCount < MaxDriverErrors
  /\ current_rotor_cmd_location' = rotor_cmd_location
  /\ \E e \in DriverErrors : log_message(e)
  /\ rotor_pc' = "453"
  /\ UNCHANGED <<pointing_vars, radio_vars, main_vars, eph_vars, relay_vars,
                 rotor_location, motor_azel, motor_cmd,
                 radio_queue, command_queue, received, status>>

\* lines 465 or 474 and 478-481: get_azimuth_elevation raises; nothing is
\* assigned to rotor_location, the handler logs str(e) and `while True`
\* starts the next iteration
RotorGetFails ==
  /\ \/ rotor_pc = "465"
     \/ rotor_pc = "453" /\ azel_within_range(rotor_location, rotor_cmd_location)
  /\ DriverErrorCount < MaxDriverErrors
  /\ current_rotor_cmd_location' =
       IF rotor_pc = "453" THEN rotor_cmd_location ELSE current_rotor_cmd_location
  /\ \E e \in DriverErrors : log_message(e)
  /\ rotor_pc' = "453"
  /\ UNCHANGED <<pointing_vars, radio_vars, main_vars, eph_vars, relay_vars,
                 rotor_location, motor_azel, motor_cmd,
                 radio_queue, command_queue, received, status>>

---------------------------------------------------------------------------
(* update_ephemeris_location: the Ephemeris Refresh Loop.                  *)

\* lines 417-422 (after the sleep of line 440): every ten seconds the tracker
\* recomputes its table, by which time the sky may have moved; the table is
\* copied to ephemeris_locations
EphRefresh ==
  /\ eph_pc = "417"
  /\ \E t \in {tracker_time, tracker_time + 1} :
       /\ t <= MaxSkyTime
       /\ tracker_time' = t
       /\ ephemeris_locations' = SkyAt(t)
  /\ eph_pc' = "423"
  /\ UNCHANGED <<pointing_vars, radio_vars, main_vars, rotor_vars, relay_vars,
                 eph_frame, radio_queue, command_queue, command_error_logs,
                 received, status>>

\* line 423: is an object tracked
EphCheck ==
  /\ eph_pc = "423"
  /\ eph_pc' = IF ephemeris_cmd_location # None THEN "424" ELSE "417"
  /\ UNCHANGED <<pointing_vars, radio_vars, main_vars, rotor_vars, relay_vars,
                 eph_frame, ephemeris_locations, tracker_time,
                 radio_queue, command_queue, command_error_logs, received, status>>

\* lines 424-426: look the tracked object up, reading ephemeris_cmd_location
\* a second time; None is no key of the table and the KeyError ends the thread
EphLookup ==
  /\ eph_pc = "424"
  /\ IF ephemeris_cmd_location = None
     THEN /\ eph_pc' = "KeyError"
          /\ UNCHANGED eph_frame
     ELSE /\ eph_pc' = "427"
          /\ eph_frame' =
               [eph_frame EXCEPT !.new_rotor_destination =
                                    ephemeris_locations[ephemeris_cmd_location]]
  /\ UNCHANGED <<pointing_vars, radio_vars, main_vars, rotor_vars, relay_vars,
                 ephemeris_locations, tracker_time,
                 radio_queue, command_queue, command_error_logs, received, status>>

\* lines 427-432: add the current offsets, check both pairs against the bounds
EphAddOffsets ==
  /\ eph_pc = "427"
  /\ LET new_rotor_cmd_location == add(eph_frame.new_rotor_destination, rotor_offsets)
     IN  /\ eph_frame' =
               [eph_frame EXCEPT !.new_rotor_cmd_location = new_rotor_cmd_location]
         /\ eph_pc' =
              IF /\ angles_within_bounds(eph_frame.new_rotor_destination[1],
                                         eph_frame.new_rotor_destination[2])
                 /\ angles_within_bounds(new_rotor_cmd_location[1],
                                         new_rotor_cmd_location[2])
              THEN "433" ELSE "436"
  /\ UNCHANGED <<pointing_vars, radio_vars, main_vars, rotor_vars, relay_vars,
                 ephemeris_locations, tracker_time,
                 radio_queue, command_queue, command_error_logs, received, status>>

\* line 433
EphWriteDestination ==
  /\ eph_pc = "433"
  /\ rotor_destination' = eph_frame.new_rotor_destination
  /\ eph_pc' = "434"
  /\ UNCHANGED <<rotor_offsets, rotor_cmd_location, ephemeris_cmd_location,
                 radio_vars, main_vars, rotor_vars, relay_vars, eph_frame,
                 ephemeris_locations, tracker_time,
                 radio_queue, command_queue, command_error_logs, received, status>>

\* line 434, then the sleep of line 440
EphWriteCmdLocation ==
  /\ eph_pc = "434"
  /\ rotor_cmd_location' = eph_frame.new_rotor_cmd_location
  /\ eph_pc' = "417"
  /\ eph_frame' = NoEphFrame
  /\ UNCHANGED <<rotor_destination, rotor_offsets, ephemeris_cmd_location,
                 radio_vars, main_vars, rotor_vars, relay_vars,
                 ephemeris_locations, tracker_time,
                 radio_queue, command_queue, command_error_logs, received, status>>

\* lines 436-438
EphLogMovedOut ==
  /\ eph_pc = "436"
  /\ log_message("moved out of motor bounds")
  /\ eph_pc' = "439"
  /\ UNCHANGED <<pointing_vars, radio_vars, main_vars, rotor_vars, relay_vars,
                 eph_frame, ephemeris_locations, tracker_time,
                 radio_queue, command_queue, received, status>>

\* line 439, then the sleep of line 440
EphClearTracking ==
  /\ eph_pc = "439"
  /\ ephemeris_cmd_location' = None
  /\ eph_pc' = "417"
  /\ eph_frame' = NoEphFrame
  /\ UNCHANGED <<rotor_destination, rotor_offsets, rotor_cmd_location,
                 radio_vars, main_vars, rotor_vars, relay_vars,
                 ephemeris_locations, tracker_time,
                 radio_queue, command_queue, command_error_logs, received, status>>

update_ephemeris_location ==
  \/ EphRefresh \/ EphCheck \/ EphLookup \/ EphAddOffsets
  \/ EphWriteDestination \/ EphWriteCmdLocation
  \/ EphLogMovedOut \/ EphClearTracking

---------------------------------------------------------------------------
(* update_radio_settings: the Parameter Relay Loop.                        *)

\* a relay that leaves the shutdown entry to another reader: the entry is
\* dropped from the queue and no call is made
RelayGet_leaving_is_running ==
  /\ relay_pc = "546"
  /\ radio_queue # <<>>
  /\ radio_queue' = Tail(radio_queue)
  /\ IF Head(radio_queue) = <<"is_running", FALSE>>
     THEN UNCHANGED <<relay_item, relay_pc>>
     ELSE relay_item' = Head(radio_queue) /\ relay_pc' = "548"
  /\ UNCHANGED <<pointing_vars, radio_vars, main_vars, eph_vars, rotor_vars,
                 rpc_up, command_queue, command_error_logs, received, status>>

\* line 546: radio_queue.get, which waits while the queue is empty
RelayGet ==
  /\ relay_pc = "546"
  /\ radio_queue # <<>>
  /\ relay_item' = Head(radio_queue)
  /\ radio_queue' = Tail(radio_queue)
  /\ relay_pc' = "548"
  /\ UNCHANGED <<pointing_vars, radio_vars, main_vars, eph_vars, rotor_vars,
                 rpc_up, command_queue, command_error_logs, received, status>>

\* lines 547-548: the set_<method>(value) call; with the endpoint down the
\* call raises ConnectionRefusedError, which nothing in the thread catches
RelayCall ==
  /\ relay_pc = "548"
  /\ relay_pc' = IF rpc_up THEN "549" ELSE "ConnectionRefusedError"
  /\ UNCHANGED <<pointing_vars, radio_vars, main_vars, eph_vars, rotor_vars,
                 relay_item, rpc_up, radio_queue, command_queue,
                 command_error_logs, received, status>>

\* line 549: the pause between two calls
RelaySleep ==
  /\ relay_pc = "549"
  /\ relay_pc' = "546"
  /\ relay_item' = NoItem
  /\ UNCHANGED <<pointing_vars, radio_vars, main_vars, eph_vars, rotor_vars,
                 rpc_up, radio_queue, command_queue, command_error_logs, received, status>>

update_radio_settings == RelayGet \/ RelayCall \/ RelaySleep

\* the relay has a step to take
RelayReady ==
  \/ relay_pc \in {"548", "549"}
  \/ relay_pc = "546" /\ radio_queue # <<>>

\* the signal-processing endpoint stops accepting connections, or accepts
\* them again
RpcChanges ==
  /\ main_pc # "srt_daemon_main"
  /\ rpc_up' = ~rpc_up
  /\ UNCHANGED <<pointing_vars, radio_vars, main_vars, eph_vars, rotor_vars,
                 relay_pc, relay_item, radio_queue, command_queue,
                 command_error_logs, received, status>>

---------------------------------------------------------------------------
(* srt_daemon_main, lines 609-670: from the command text to the call.      *)

\* the UTC clock, time(): year, day of the year, second of the day
NowYear == 2020
NowDay == 100
NowSecond == 43200

\* value of a field of a time string: digits of the given lengths, in range
FieldOk(f, minlen, maxlen, lo, hi) ==
  /\ AllDigits(f) /\ minlen <= Len(f) /\ Len(f) <= maxlen
  /\ lo <= NatVal(f) /\ NatVal(f) <= hi

\* datetime.strptime(s, "%H:%M:%S") succeeds
StrptimeHmsOk(s) ==
  LET f == Split(s, ":")
  IN  /\ Len(f) = 3
      /\ FieldOk(f[1], 1, 2, 0, 23)
      /\ FieldOk(f[2], 1, 2, 0, 59)
      /\ FieldOk(f[3], 1, 2, 0, 61)

\* datetime.strptime(s, "%Y:%j:%H:%M:%S") succeeds
StrptimeYjHmsOk(s) ==
  LET f == Split(s, ":")
  IN  /\ Len(f) = 5
      /\ FieldOk(f[1], 4, 4, 0, 9999)
      /\ FieldOk(f[2], 1, 3, 1, 366)
      /\ StrptimeHmsOk(f[3] \o <<":">> \o f[4] \o <<":">> \o f[5])

SecondOfDay(h, m, sec) == NatVal(h) * 3600 + NatVal(m) * 60 + NatVal(sec)

\* lines 656-661: seconds from now to the next time the clock shows s; the
\* parsed time lies in the year 1900 and is moved forward day by day until it
\* is not before now
LstDelta(s) ==
  LET f == Split(s, ":")
  IN  (SecondOfDay(f[1], f[2], f[3]) - NowSecond) % 86400

\* lines 664-667: seconds from now to the time stamp s; beyond sixty years
\* only the sign and whether time.sleep accepts the length are kept
StampDelta(s) ==
  LET f == Split(s, ":")
      years == NatVal(f[1]) - NowYear
  IN  IF years >= 293 THEN Huge
      ELSE IF years > 60 THEN Huge - 1
      ELSE IF years < -60 THEN -Huge
      ELSE (years * 365 + (NatVal(f[2]) - NowDay)) * 86400
             + (SecondOfDay(f[3], f[4], f[5]) - NowSecond)

Call(op, object_id, arg, name, exc) ==
  [NoFrame EXCEPT !.op = op, !.object_id = object_id, !.arg = arg,
                  !.name = name, !.exc = exc]

Raise(exc) == Call("raise", None, <<0, 0>>, None, exc)

\* sleep(x) as a call, or the exception time.sleep raises
SleepCall(x) ==
  IF sleep(x) = "returns" THEN Call("sleep", None, <<x, 0>>, None, "none")
  ELSE Raise(sleep(x))

\* float(command_parts[i]) with a 0-based i: the exception it raises, if any
FloatArgExc(parts, i) ==
  IF Len(parts) < i + 1 THEN "IndexError"
  ELSE IF ~FloatOk(parts[i + 1]) THEN "ValueError"
  ELSE "none"

\* a call taking float(command_parts[1]) and float(command_parts[2])
TwoFloatCall(op, parts) ==
  IF FloatArgExc(parts, 1) # "none" THEN Raise(FloatArgExc(parts, 1))
  ELSE IF FloatArgExc(parts, 2) # "none" THEN Raise(FloatArgExc(parts, 2))
  ELSE Call(op, None, <<Float(parts[2]), Float(parts[3])>>, None, "none")

\* a call taking float(command_parts[1]) * pow(10, 6)
MegaCall(op, parts) ==
  IF FloatArgExc(parts, 1) # "none" THEN Raise(FloatArgExc(parts, 1))
  ELSE Call(op, None, <<TimesMillion(Float(parts[2])), 0>>, None, "none")

\* lines 609-670: what the main loop does with a command text, given the
\* object names of ephemeris_locations
Interpret(text, names) ==
  IF Len(text) < 2 \/ text[1] = "*" THEN Call("continue", None, <<0, 0>>, None, "none")
  ELSE
    LET command == IF text[1] = ":" THEN Strip(From(text, 1)) ELSE text
        command_parts == Split(command, " ")
        command_name == Lower(command_parts[1])
        last == command_parts[Len(command_parts)]
    IN  IF command_parts[1] \in names THEN
          IF last = <<"n">> THEN
            Call("n_point_scan", command_parts[1], <<0, 0>>, None, "none")
          ELSE IF last = <<"b">> THEN
            Call("beam_switch", command_parts[1], <<0, 0>>, None, "none")
          ELSE Call("point_at_object", command_parts[1], <<0, 0>>, None, "none")
        ELSE IF command_name = <<"s", "t", "o", "w">> THEN
          Call("stow", None, <<0, 0>>, None, "none")
        ELSE IF command_name = <<"c", "a", "l">> THEN
          Call("point_at_azel", None, cal_location, None, "none")
        ELSE IF command_name = <<"c", "a", "l", "i", "b", "r", "a", "t", "e">> THEN
          Call("calibrate", None, <<0, 0>>, None, "none")
        ELSE IF command_name = <<"q", "u", "i", "t">> THEN
          Call("quit", None, <<0, 0>>, None, "none")
        ELSE IF command_name = <<"r", "e", "c", "o", "r", "d">> THEN
          Call("start_recording", None, <<0, 0>>,
               IF Len(command_parts) <= 1 THEN None ELSE command_parts[2], "none")
        ELSE IF command_name = <<"r", "o", "f", "f">> THEN
          Call("stop_recording", None, <<0, 0>>, None, "none")
        ELSE IF command_name = <<"f", "r", "e", "q">> THEN
          MegaCall("set_freq", command_parts)
        ELSE IF command_name = <<"s", "a", "m", "p">> THEN
          MegaCall("set_samp_rate", command_parts)
        ELSE IF command_name = <<"a", "z", "e", "l">> THEN
          TwoFloatCall("point_at_azel", command_parts)
        ELSE IF command_name = <<"o", "f", "f", "s", "e", "t">> THEN
          TwoFloatCall("point_at_offset", command_parts)
        ELSE IF IsNumeric(command_name) THEN SleepCall(Float(command_name))
        ELSE IF command_name = <<"w", "a", "i", "t">> THEN
          IF FloatArgExc(command_parts, 1) # "none"
          THEN Raise(FloatArgExc(command_parts, 1))
          ELSE SleepCall(Float(command_parts[2]))
        ELSE IF Split(command_name, ":")[1] = <<"l", "s", "t">> THEN
          LET time_string == Replace(command_name, <<"L", "S", "T", ":">>, <<>>)
          IN  IF ~StrptimeHmsOk(time_string) THEN Raise("ValueError")
              ELSE SleepCall(LstDelta(time_string))
        ELSE IF Len(Split(command_name, ":")) = 5 THEN
          IF ~StrptimeYjHmsOk(command_name) THEN Raise("ValueError")
          ELSE SleepCall(StampDelta(command_name))
        ELSE Call("not identified", None, <<0, 0>>, None, "none")

---------------------------------------------------------------------------
(* srt_daemon_main, lines 602-677: the Command Interpreter.                *)

\* first statement of each call that touches shared state
EntryPc(op) ==
  CASE op = "continue" -> "606"
    [] op = "n_point_scan" -> "158"
    [] op = "beam_switch" -> "187"
    [] op = "point_at_object" -> "215"
    [] op = "stow" -> "288"
    [] op = "point_at_azel" -> "242"
    [] op = "point_at_offset" -> "270"
    [] op = "calibrate" -> "306"
    [] op = "quit" -> "404"
    [] op = "start_recording" -> "329"
    [] op = "stop_recording" -> "353"
    [] op = "set_freq" -> "372"
    [] op = "set_samp_rate" -> "391"
    [] op = "sleep" -> "sleep"
    [] op = "raise" -> "except"
    [] op = "not identified" -> "670"

\* what the main thread does not touch
not_main == <<eph_vars, rotor_vars, relay_vars, command_queue, received, status>>

\* the end of a command: back to `while keep_running` (line 602)
LoopAgain ==
  /\ main_pc' = IF keep_running THEN "606" ELSE "680"
  /\ frame' = NoFrame
  /\ UNCHANGED keep_running

\* an interpreter that takes the newest command of the queue
MainTake_taking_newest ==
  /\ main_pc = "606"
  /\ command_queue # <<>>
  /\ command_queue' = SubSeq(command_queue, 1, Len(command_queue) - 1)
  /\ log_message("Running Command")
  /\ LET call == Interpret(command_queue[Len(command_queue)],
                           DOMAIN ephemeris_locations)
     IN  /\ main_pc' = EntryPc(call.op)
         /\ frame' = IF call.op = "continue" THEN NoFrame
                     ELSE [call EXCEPT !.caller = "srt_daemon_main"]
  /\ UNCHANGED <<pointing_vars, radio_vars, keep_running, eph_vars, rotor_vars,
                 relay_vars, radio_queue, received, status>>

\* lines 605-614 and the dispatch of 617-670: take the next command, log it,
\* split it and choose the call
MainTake ==
  /\ main_pc = "606"
  /\ command_queue # <<>>
  /\ command_queue' = Tail(command_queue)
  /\ log_message("Running Command")
  /\ LET call == Interpret(Head(command_queue), DOMAIN ephemeris_locations)
     IN  /\ main_pc' = EntryPc(call.op)
         /\ frame' = IF call.op = "continue" THEN NoFrame
                     ELSE [call EXCEPT !.caller = "srt_daemon_main"]
  /\ UNCHANGED <<pointing_vars, radio_vars, keep_running, eph_vars, rotor_vars,
                 relay_vars, radio_queue, received, status>>

\* line 670
MainNotIdentified ==
  /\ main_pc = "670"
  /\ log_message("Command Not Identified")
  /\ LoopAgain
  /\ UNCHANGED <<pointing_vars, radio_vars, not_main, radio_queue>>

\* lines 672-677: IndexError, ValueError and ConnectionRefusedError are
\* logged; any other exception leaves srt_daemon_main, and the process ends
\* with its main thread
MainExcept ==
  /\ main_pc = "except"
  /\ IF frame.exc \in {"IndexError", "ValueError", "ConnectionRefusedError"}
     THEN /\ log_message(frame.exc)
          /\ LoopAgain
     ELSE /\ main_pc' = frame.exc
          /\ UNCHANGED <<frame, keep_running, command_error_logs>>
  /\ UNCHANGED <<pointing_vars, radio_vars, not_main, radio_queue>>

\* lines 651, 653, 662 and 668: the sleep is over
MainSleep ==
  /\ main_pc = "sleep"
  /\ LoopAgain
  /\ UNCHANGED <<pointing_vars, radio_vars, not_main, radio_queue,
                 command_error_logs>>

\* update_command_queue: the command socket delivers a line
update_command_queue(texts) ==
  /\ main_pc # "srt_daemon_main"
  /\ received < MaxCommands
  /\ \E text \in texts : command_queue' = Append(command_queue, text)
  /\ received' = received + 1
  /\ UNCHANGED <<pointing_vars, radio_vars, main_vars, eph_vars, rotor_vars,
                 relay_vars, radio_queue, command_error_logs, status>>

---------------------------------------------------------------------------
(* update_status: the Status Publisher Loop.                               *)

\* lines 513-531: the dictionary that is sent, without the station, the
\* contact and the queued item, which are not part of the state here
StatusNow ==
  [ beam_width |-> beamwidth,
    motor_azel |-> rotor_location,
    motor_cmd_azel |-> rotor_cmd_location,
    object_locs |-> ephemeris_locations,
    az_limits |-> az_limits,
    el_limits |-> el_limits,
    center_frequency |-> radio_center_frequency,
    bandwidth |-> radio_sample_frequency,
    motor_offsets |-> rotor_offsets,
    queue_size |-> Len(command_queue),
    error_logs |-> command_error_logs,
    temp_cal |-> temp_cal,
    temp_sys |-> temp_sys,
    cal_power |-> cal_power ]

\* a publisher that reports the commanded position as reached
update_status_writing_position ==
  /\ main_pc # "srt_daemon_main"
  /\ rotor_location' = rotor_cmd_location
  /\ status' = [StatusNow EXCEPT !.motor_azel = rotor_cmd_location]
  /\ UNCHANGED <<pointing_vars, radio_vars, main_vars, eph_vars, rotor_pc,
                 current_rotor_cmd_location, motor_azel, motor_cmd,
                 relay_vars, radio_queue, command_queue, command_error_logs,
                 received>>

\* lines 512-533: build the dictionary and send it
update_status ==
  /\ main_pc # "srt_daemon_main"
  /\ status' = StatusNow
  /\ UNCHANGED <<pointing_vars, radio_vars, main_vars, eph_vars, rotor_vars,
                 relay_vars, radio_queue, command_queue, command_error_logs,
                 received>>

---------------------------------------------------------------------------
(* Pointing operations of the main thread.  Each action is one statement   *)
(* that reads or writes shared state, named by its function and line.      *)

ScanCells == 25
ScanSide == 5
BeamLegs == 3

\* the main thread moves from one statement to another
Goto(from, to) == main_pc = from /\ main_pc' = to /\ UNCHANGED keep_running

Keep == UNCHANGED frame

\* the one shared attribute a statement writes
WritesOffsets(v) ==
  /\ rotor_offsets' = v
  /\ UNCHANGED <<rotor_destination, rotor_cmd_location, ephemeris_cmd_location,
                 radio_vars, not_main, radio_queue, command_error_logs>>

WritesDestination(v) ==
  /\ rotor_destination' = v
  /\ UNCHANGED <<rotor_offsets, rotor_cmd_location, ephemeris_cmd_location,
                 radio_vars, not_main, radio_queue, command_error_logs>>

WritesCmdLocation(v) ==
  /\ rotor_cmd_location' = v
  /\ UNCHANGED <<rotor_destination, rotor_offsets, ephemeris_cmd_location,
                 radio_vars, not_main, radio_queue, command_error_logs>>

WritesTracking(v) ==
  /\ ephemeris_cmd_location' = v
  /\ UNCHANGED <<rotor_destination, rotor_offsets, rotor_cmd_location,
                 radio_vars, not_main, radio_queue, command_error_logs>>

Puts(item) ==
  /\ put(item)
  /\ UNCHANGED <<pointing_vars, radio_vars, not_main, command_error_logs>>

Logs(message) ==
  /\ log_message(message)
  /\ UNCHANGED <<pointing_vars, radio_vars, not_main, radio_queue>>

WritesNothing ==
  UNCHANGED <<pointing_vars, radio_vars, not_main, radio_queue, command_error_logs>>

\* `while not azel_within_range(self.rotor_location, self.rotor_cmd_location)`
\* is left
Arrived == azel_within_range(rotor_location, rotor_cmd_location)

InBounds(azel) == angles_within_bounds(azel[1], azel[2])

(* point_at_object *)

point_at_object_215 == Goto("215", "216") /\ Keep /\ WritesOffsets(<<0, 0>>)

point_at_object_216 ==
  Goto("216", "217") /\ Keep /\ Puts(<<"soutrack", frame.object_id>>)

point_at_object_217 ==
  /\ main_pc = "217"
  /\ LET new_rotor_cmd_location == ephemeris_locations[frame.object_id]
     IN  /\ frame' = [frame EXCEPT !.new_rotor_cmd_location = new_rotor_cmd_location]
         /\ main_pc' = IF InBounds(new_rotor_cmd_location) THEN "219" ELSE "225"
  /\ UNCHANGED keep_running
  /\ WritesNothing

point_at_object_219 == Goto("219", "220") /\ Keep /\ WritesTracking(frame.object_id)

point_at_object_220 ==
  Goto("220", "221") /\ Keep /\ WritesDestination(frame.new_rotor_cmd_location)

point_at_object_221 ==
  Goto("221", "222") /\ Keep /\ WritesCmdLocation(frame.new_rotor_cmd_location)

point_at_object_222 == main_pc = "222" /\ Arrived /\ LoopAgain /\ WritesNothing

point_at_object_225 ==
  Goto("225", "226") /\ Keep /\ Logs("Object Not in Motor Bounds")

point_at_object_226 == main_pc = "226" /\ LoopAgain /\ WritesTracking(None)

point_at_object ==
  \/ point_at_object_215 \/ point_at_object_216 \/ point_at_object_217
  \/ point_at_object_219 \/ point_at_object_220 \/ point_at_object_221
  \/ point_at_object_222 \/ point_at_object_225 \/ point_at_object_226

(* point_at_azel *)

point_at_azel_242 == Goto("242", "243") /\ Keep /\ WritesTracking(None)

point_at_azel_243 == Goto("243", "244") /\ Keep /\ WritesOffsets(<<0, 0>>)

\* lines 244-247: the label is queued and the literal pair checked
point_at_azel_244 ==
  /\ main_pc = "244"
  /\ main_pc' = IF InBounds(frame.arg) THEN "248" ELSE "253"
  /\ frame' = [frame EXCEPT !.new_rotor_destination = frame.arg,
                            !.new_rotor_cmd_location = frame.arg]
  /\ UNCHANGED keep_running
  /\ Puts(<<"soutrack", <<"azel", frame.arg[1], frame.arg[2]>> >>)

point_at_azel_248 ==
  Goto("248", "249") /\ Keep /\ WritesDestination(frame.new_rotor_destination)

point_at_azel_249 ==
  Goto("249", "250") /\ Keep /\ WritesCmdLocation(frame.new_rotor_cmd_location)

point_at_azel_250 == main_pc = "250" /\ Arrived /\ LoopAgain /\ WritesNothing

point_at_azel_253 ==
  main_pc = "253" /\ LoopAgain /\ Logs("Object at Not in Motor Bounds")

point_at_azel ==
  \/ point_at_azel_242 \/ point_at_azel_243 \/ point_at_azel_244
  \/ point_at_azel_248 \/ point_at_azel_249 \/ point_at_azel_250
  \/ point_at_azel_253

(* stow *)

stow_288 == Goto("288", "289") /\ Keep /\ WritesTracking(None)

stow_289 == Goto("289", "290") /\ Keep /\ Puts(<<"soutrack", <<"at_stow">> >>)

stow_290 == Goto("290", "291") /\ Keep /\ WritesOffsets(<<0, 0>>)

stow_291 == Goto("291", "292") /\ Keep /\ WritesDestination(stow_location)

stow_292 == Goto("292", "293") /\ Keep /\ WritesCmdLocation(stow_location)

stow_293 == main_pc = "293" /\ Arrived /\ LoopAgain /\ WritesNothing

stow == stow_288 \/ stow_289 \/ stow_290 \/ stow_291 \/ stow_292 \/ stow_293

(* point_at_offset, called by the `offset` command, n_point_scan and        *)
(* beam_switch                                                             *)

\* where the main thread continues when point_at_offset returns, or when a
\* scan skips the call: the dwell (sleep(5)) and the next cell or leg
AfterOffset ==
  CASE frame.caller = "srt_daemon_main" -> LoopAgain
    [] frame.caller = "n_point_scan" ->
         /\ main_pc' = IF frame.scan + 1 < ScanCells THEN "161" ELSE "172"
         /\ frame' = [frame EXCEPT !.scan = frame.scan + 1]
         /\ UNCHANGED keep_running
    [] frame.caller = "beam_switch" ->
         /\ main_pc' = IF frame.scan + 1 < BeamLegs THEN "191" ELSE "199"
         /\ frame' = [frame EXCEPT !.scan = frame.scan + 1]
         /\ UNCHANGED keep_running

\* point_at_offset without the test of line 273
point_at_offset_270_unchecked ==
  /\ main_pc = "270"
  /\ LET new_rotor_cmd_location == add(rotor_destination, frame.arg)
     IN  /\ frame' = [frame EXCEPT !.new_rotor_offsets = frame.arg,
                                   !.new_rotor_cmd_location = new_rotor_cmd_location]
         /\ main_pc' = "274"
  /\ UNCHANGED keep_running
  /\ WritesNothing

\* lines 269-273: the offsets are added to the current destination
point_at_offset_270 ==
  /\ main_pc = "270"
  /\ LET new_rotor_cmd_location == add(rotor_destination, frame.arg)
     IN  /\ frame' = [frame EXCEPT !.new_rotor_offsets = frame.arg,
                                   !.new_rotor_cmd_location = new_rotor_cmd_location]
         /\ main_pc' = IF InBounds(new_rotor_cmd_location) THEN "274" ELSE "279"
  /\ UNCHANGED keep_running
  /\ WritesNothing

point_at_offset_274 ==
  Goto("274", "275") /\ Keep /\ WritesOffsets(frame.new_rotor_offsets)

point_at_offset_275 ==
  Goto("275", "276") /\ Keep /\ WritesCmdLocation(frame.new_rotor_cmd_location)

point_at_offset_276 == main_pc = "276" /\ Arrived /\ AfterOffset /\ WritesNothing

point_at_offset_279 == main_pc = "279" /\ AfterOffset /\ Logs("Offset Out of Bounds")

point_at_offset ==
  \/ point_at_offset_270 \/ point_at_offset_274 \/ point_at_offset_275
  \/ point_at_offset_276 \/ point_at_offset_279

(* n_point_scan *)

\* lines 162-167: the offsets of cell `scan` about an object at elevation el
ScanOffsets(scan, el) ==
  LET i == (scan \div ScanSide) - 2
      j == (scan % ScanSide) - 2
      el_dif == RoundDiv(i * beamwidth * 500, 1000)
      az_dif == DivByCos(j * beamwidth * 500, el + el_dif)
  IN  <<az_dif, el_dif>>

n_point_scan_158 ==
  /\ Goto("158", "159")
  /\ frame' = [frame EXCEPT !.caller = "n_point_scan", !.scan = 0]
  /\ WritesTracking(None)

n_point_scan_159 ==
  /\ Goto("159", "161") /\ Keep /\ Puts(<<"soutrack", frame.object_id>>)

\* lines 161-168 of one cell: the object's position is read and checked; out
\* of bounds, the cell is skipped
n_point_scan_161 ==
  /\ main_pc = "161"
  /\ LET new_rotor_destination == ephemeris_locations[frame.object_id]
         cell == [frame EXCEPT
                    !.new_rotor_destination = new_rotor_destination,
                    !.arg = ScanOffsets(frame.scan, new_rotor_destination[2])]
     IN  IF InBounds(new_rotor_destination)
         THEN main_pc' = "169" /\ frame' = cell /\ UNCHANGED keep_running
         ELSE AfterOffset
  /\ WritesNothing

n_point_scan_169 ==
  Goto("169", "270") /\ Keep /\ WritesDestination(frame.new_rotor_destination)

\* a scan that does not restore the zero offset
n_point_scan_172_keeping_offsets ==
  Goto("172", "173") /\ Keep /\ WritesOffsets(rotor_offsets)

n_point_scan_172 == Goto("172", "173") /\ Keep /\ WritesOffsets(<<0, 0>>)

n_point_scan_173 == main_pc = "173" /\ LoopAgain /\ WritesTracking(frame.object_id)

n_point_scan ==
  \/ n_point_scan_158 \/ n_point_scan_159 \/ n_point_scan_161
  \/ n_point_scan_169 \/ n_point_scan_172 \/ n_point_scan_173

(* beam_switch *)

\* lines 192-194: the offsets of leg j about an object at elevation el
BeamOffsets(j, el) == <<DivByCos(((j % 3) - 1) * beamwidth * 1000, el), 0>>

beam_switch_187 ==
  /\ Goto("187", "188")
  /\ frame' = [frame EXCEPT !.caller = "beam_switch", !.scan = 0]
  /\ WritesTracking(None)

beam_switch_188 ==
  /\ Goto("188", "189") /\ Keep /\ Puts(<<"soutrack", frame.object_id>>)

beam_switch_189 ==
  /\ Goto("189", "191")
  /\ frame' = [frame EXCEPT
                 !.new_rotor_destination = ephemeris_locations[frame.object_id]]
  /\ WritesNothing

\* a beam switch that queues the label of a leg after the bounds check, for
\* the legs it makes only
beam_switch_191_label_after_check ==
  /\ main_pc = "191"
  /\ IF InBounds(frame.new_rotor_destination)
     THEN /\ main_pc' = "196"
          /\ frame' = [frame EXCEPT
                         !.arg = BeamOffsets(frame.scan, frame.new_rotor_destination[2])]
          /\ UNCHANGED keep_running
          /\ Puts(<<"beam_switch", frame.scan + 1>>)
     ELSE AfterOffset /\ WritesNothing

\* lines 191-195 of one leg: the label is queued and the position checked; out
\* of bounds, the leg is skipped
beam_switch_191 ==
  /\ main_pc = "191"
  /\ IF InBounds(frame.new_rotor_destination)
     THEN /\ main_pc' = "196"
          /\ frame' = [frame EXCEPT
                         !.arg = BeamOffsets(frame.scan, frame.new_rotor_destination[2])]
          /\ UNCHANGED keep_running
     ELSE AfterOffset
  /\ Puts(<<"beam_switch", frame.scan + 1>>)

beam_switch_196 ==
  Goto("196", "270") /\ Keep /\ WritesDestination(frame.new_rotor_destination)

beam_switch_199 == Goto("199", "200") /\ Keep /\ WritesOffsets(<<0, 0>>)

beam_switch_200 == Goto("200", "201") /\ Keep /\ Puts(<<"beam_switch", 0>>)

beam_switch_201 == main_pc = "201" /\ LoopAgain /\ WritesTracking(frame.object_id)

beam_switch ==
  \/ beam_switch_187 \/ beam_switch_188 \/ beam_switch_189 \/ beam_switch_191
  \/ beam_switch_196 \/ beam_switch_199 \/ beam_switch_200 \/ beam_switch_201

---------------------------------------------------------------------------
(* Radio and control operations of the main thread.                        *)

\* an exception leaves the function for the handlers of lines 672-677
Raises(exc) ==
  /\ main_pc' = "except"
  /\ frame' = [frame EXCEPT !.exc = exc]
  /\ UNCHANGED keep_running

WritesRadio(raw, spec, freq, samp) ==
  /\ radio_save_raw_task' = raw
  /\ radio_save_spec_task' = spec
  /\ radio_center_frequency' = freq
  /\ radio_sample_frequency' = samp
  /\ UNCHANGED <<cal_values, cal_power, calibration_file, pointing_vars,
                 not_main, radio_queue, command_error_logs>>

(* calibrate *)

\* lines 303-307: the calibration task runs for at most 30 seconds, and has
\* written calibration.json by then or has not
calibrate_306 ==
  /\ Goto("306", "309") /\ Keep
  /\ \E written \in BOOLEAN :
       calibration_file' = IF written THEN "profile" ELSE calibration_file
  /\ UNCHANGED <<radio_center_frequency, radio_sample_frequency,
                 radio_save_raw_task, radio_save_spec_task, cal_values,
                 cal_power, pointing_vars, not_main, radio_queue,
                 command_error_logs>>

\* lines 309-311: open() of a missing file raises FileNotFoundError, and a
\* file without the key raises KeyError; else cal_values is assigned
calibrate_309 ==
  /\ main_pc = "309"
  /\ IF calibration_file = "missing"
     THEN Raises("FileNotFoundError") /\ UNCHANGED cal_values
     ELSE IF calibration_file = "no cal_values"
     THEN Raises("KeyError") /\ UNCHANGED cal_values
     ELSE /\ main_pc' = "312" /\ UNCHANGED <<frame, keep_running>>
          /\ cal_values' = StoredProfile.cal_values
  /\ UNCHANGED <<radio_center_frequency, radio_sample_frequency,
                 radio_save_raw_task, radio_save_spec_task, cal_power,
                 calibration_file, pointing_vars, not_main, radio_queue,
                 command_error_logs>>

calibrate_312 ==
  /\ Goto("312", "313") /\ Keep
  /\ cal_power' = StoredProfile.cal_pwr
  /\ UNCHANGED <<radio_center_frequency, radio_sample_frequency,
                 radio_save_raw_task, radio_save_spec_task, cal_values,
                 calibration_file, pointing_vars, not_main, radio_queue,
                 command_error_logs>>

calibrate_313 == Goto("313", "314") /\ Keep /\ Puts(<<"cal_pwr", cal_power>>)

calibrate_314 == Goto("314", "315") /\ Keep /\ Puts(<<"cal_values", cal_values>>)

calibrate_315 == main_pc = "315" /\ LoopAgain /\ Logs("Calibration Done")

calibrate ==
  \/ calibrate_306 \/ calibrate_309 \/ calibrate_312 \/ calibrate_313
  \/ calibrate_314 \/ calibrate_315

(* start_recording and stop_recording *)

\* start_recording without the test of line 329
start_recording_329_unchecked ==
  /\ main_pc = "329"
  /\ LoopAgain
  /\ IF frame.name = None \/ ~EndsWith(frame.name, <<".", "r", "a", "d">>)
     THEN WritesRadio("started", radio_save_spec_task,
                      radio_center_frequency, radio_sample_frequency)
     ELSE WritesRadio(radio_save_raw_task, "created",
                      radio_center_frequency, radio_sample_frequency)

\* lines 329-344: a raw task is created and started, a spectrum task is
\* created; with a task at hand the refusal is logged
start_recording_329 ==
  /\ main_pc = "329"
  /\ LoopAgain
  /\ IF radio_save_raw_task = "None" /\ radio_save_spec_task = "None"
     THEN /\ IF frame.name = None \/ ~EndsWith(frame.name, <<".", "r", "a", "d">>)
             THEN WritesRadio("started", radio_save_spec_task,
                              radio_center_frequency, radio_sample_frequency)
             ELSE WritesRadio(radio_save_raw_task, "created",
                              radio_center_frequency, radio_sample_frequency)
     ELSE Logs("Cannot Start Recording - Already Recording")
          /\ UNCHANGED <<radio_center_frequency, radio_sample_frequency,
                         radio_save_raw_task, radio_save_spec_task, cal_values,
                         cal_power, calibration_file>>

start_recording == start_recording_329

\* lines 353-355
stop_recording_353 ==
  /\ Goto("353", "356") /\ Keep
  /\ WritesRadio("None", radio_save_spec_task,
                 radio_center_frequency, radio_sample_frequency)

\* lines 356-358
stop_recording_356 ==
  /\ main_pc = "356" /\ LoopAgain
  /\ WritesRadio(radio_save_raw_task, "None",
                 radio_center_frequency, radio_sample_frequency)

stop_recording == stop_recording_353 \/ stop_recording_356

(* set_freq and set_samp_rate *)

set_freq_372 ==
  /\ Goto("372", "373") /\ Keep
  /\ WritesRadio(radio_save_raw_task, radio_save_spec_task,
                 frame.arg[1], radio_sample_frequency)

set_freq_373 ==
  main_pc = "373" /\ LoopAgain /\ Puts(<<"freq", radio_center_frequency>>)

set_freq == set_freq_372 \/ set_freq_373

\* lines 391-392: a raw task is terminated, and the attribute keeps it
set_samp_rate_391 ==
  /\ Goto("391", "393") /\ Keep
  /\ WritesRadio(IF radio_save_raw_task = "None" THEN "None" ELSE "terminated",
                 radio_save_spec_task, radio_center_frequency,
                 radio_sample_frequency)

set_samp_rate_393 ==
  /\ Goto("393", "394") /\ Keep
  /\ WritesRadio(radio_save_raw_task, radio_save_spec_task,
                 radio_center_frequency, frame.arg[1])

set_samp_rate_394 ==
  main_pc = "394" /\ LoopAgain /\ Puts(<<"samp_rate", radio_sample_frequency>>)

set_samp_rate == set_samp_rate_391 \/ set_samp_rate_393 \/ set_samp_rate_394

(* quit *)

\* lines 403-404: False is assigned to a variable of quit, and queued; the
\* keep_running of srt_daemon_main is another variable and keeps its value
quit_404 == main_pc = "404" /\ LoopAgain /\ Puts(<<"is_running", FALSE>>)

quit == quit_404

---------------------------------------------------------------------------
(* Spec: the pointing commands, with the ephemeris and rotor loops.        *)

\* the Sun, stow, the calibration position, a pair outside the azimuth
\* limits, and an offset that is in bounds about some positions only
PlainTexts ==
  { <<"S", "u", "n">>,
    <<"s", "t", "o", "w">>,
    <<"c", "a", "l">>,
    <<"a", "z", "e", "l", " ", "7", "0", " ", "3", "0">>,
    <<"o", "f", "f", "s", "e", "t", " ", "6", " ", "0">> }

ScanTexts ==
  { <<"S", "u", "n", " ", "n">>,
    <<"S", "u", "n", " ", "b">> }

Init == InitWith("profile")

\* the rotor loop is about to queue an observed angle
RotorPutting == rotor_pc \in {"466", "469", "475", "476"}

\* The relay reads the head of radio_queue and its own locals only, and the
\* rotor loop's put statements write the tail of radio_queue only: these steps
\* commute with every step that does not use the queue, and here they are
\* taken as soon as they can be.  A command line arrives when the interpreter
\* awaits one, and a scan is the first command of a run or is not in it.
Quiet == ~RelayReady /\ ~RotorPutting

Next ==
  \/ Startup
  \/ RelayReady /\ RelayGet
  \/ RelayReady /\ RelayCall
  \/ RelayReady /\ RelaySleep
  \/ ~RelayReady /\ RotorPutAz
  \/ ~RelayReady /\ RotorPutEl
  \/ Quiet /\ MainTake
  \/ Quiet /\ point_at_object_215
  \/ Quiet /\ point_at_object_216
  \/ Quiet /\ point_at_object_217
  \/ Quiet /\ point_at_object_219
  \/ Quiet /\ point_at_object_220
  \/ Quiet /\ point_at_object_221
  \/ Quiet /\ point_at_object_222
  \/ Quiet /\ point_at_object_225
  \/ Quiet /\ point_at_object_226
  \/ Quiet /\ point_at_azel_242
  \/ Quiet /\ point_at_azel_243
  \/ Quiet /\ point_at_azel_244
  \/ Quiet /\ point_at_azel_248
  \/ Quiet /\ point_at_azel_249
  \/ Quiet /\ point_at_azel_250
  \/ Quiet /\ point_at_azel_253
  \/ Quiet /\ point_at_offset_270
  \/ Quiet /\ point_at_offset_274
  \/ Quiet /\ point_at_offset_275
  \/ Quiet /\ point_at_offset_276
  \/ Quiet /\ point_at_offset_279
  \/ Quiet /\ stow_288
  \/ Quiet /\ stow_289
  \/ Quiet /\ stow_290
  \/ Quiet /\ stow_291
  \/ Quiet /\ stow_292
  \/ Quiet /\ stow_293
  \/ Quiet /\ n_point_scan_158
  \/ Quiet /\ n_point_scan_159
  \/ Quiet /\ n_point_scan_161
  \/ Quiet /\ n_point_scan_169
  \/ Quiet /\ n_point_scan_172
  \/ Quiet /\ n_point_scan_173
  \/ Quiet /\ beam_switch_187
  \/ Quiet /\ beam_switch_188
  \/ Quiet /\ beam_switch_189
  \/ Quiet /\ beam_switch_191
  \/ Quiet /\ beam_switch_196
  \/ Quiet /\ beam_switch_199
  \/ Quiet /\ beam_switch_200
  \/ Quiet /\ beam_switch_201
  \/ Quiet /\ EphRefresh
  \/ Quiet /\ EphCheck
  \/ Quiet /\ EphLookup
  \/ Quiet /\ EphAddOffsets
  \/ Quiet /\ EphWriteDestination
  \/ Quiet /\ EphWriteCmdLocation
  \/ Quiet /\ EphLogMovedOut
  \/ Quiet /\ EphClearTracking
  \/ Quiet /\ RotorSample
  \/ Quiet /\ RotorPoll
  \/ /\ Quiet /\ main_pc = "606" /\ command_queue = <<>>
     /\ update_command_queue(IF received = 0 THEN PlainTexts \cup ScanTexts
                             ELSE PlainTexts)

Spec == Init /\ [][Next]_vars

---------------------------------------------------------------------------
(* SpecCmd: the radio and control commands, with the relay.                *)

\* an empty line, a comment, a line with the `:` prefix, an unknown keyword,
\* a missing, a non-numeric, a negative and a long numeric argument, time
\* tokens, a number, and the radio and control commands
ControlTexts ==
  { <<>>,
    <<"*", "s", "t", "o", "w">>,
    <<":", "r", "o", "f", "f">>,
    <<"b", "o", "g", "u", "s">>,
    <<"f", "r", "e", "q">>,
    <<"f", "r", "e", "q", " ", "x">>,
    <<"f", "r", "e", "q", " ", "1", "4", "2", "0">>,
    <<"s", "a", "m", "p", " ", "2">>,
    <<"w", "a", "i", "t", " ", "-", "5">>,
    <<"w", "a", "i", "t", " ", "9", "9", "9", "9", "9", "9", "9", "9", "9", "9", "9">>,
    <<"l", "s", "t", ":", "1", "2", ":", "0", "0", ":", "0", "0">>,
    <<"1", ":", "2", ":", "3", ":", "4", ":", "5">>,
    <<"1", "0">>,
    <<"q", "u", "i", "t">>,
    <<"r", "e", "c", "o", "r", "d">>,
    <<"r", "e", "c", "o", "r", "d", " ", "a", ".", "r", "a", "d">>,
    <<"r", "e", "c", "o", "r", "d", " ", "*", ".", "r", "a", "d">>,
    <<"r", "e", "c", "o", "r", "d", " ", "a", ".", "r", "a", "w">>,
    <<"l", "s", "t", " ", "1", "2", ":", "0", "0", ":", "0", "0">>,
    <<"c", "a", "l", "i", "b", "r", "a", "t", "e">> }

InitCmd == \E file \in {"missing", "profile"} : InitWith(file)

\* rpc_up is read by the relay's call only, so the endpoint changes, if it
\* does, as the call is about to be made.
\* An exception that no handler of srt_daemon_main catches ends the main
\* thread, and with it the process and its daemon threads
Uncaught == {"OverflowError", "FileNotFoundError", "KeyError"}
Running == main_pc \notin Uncaught

NextCmd ==
  \/ Startup
  \/ Running /\ RelayReady /\ RelayGet
  \/ Running /\ RelayReady /\ RelayCall
  \/ Running /\ RelayReady /\ RelaySleep
  \/ Running /\ relay_pc = "548" /\ RpcChanges
  \/ ~RelayReady /\ MainTake
  \/ ~RelayReady /\ MainNotIdentified
  \/ ~RelayReady /\ MainExcept
  \/ ~RelayReady /\ MainSleep
  \/ ~RelayReady /\ calibrate_306
  \/ ~RelayReady /\ calibrate_309
  \/ ~RelayReady /\ calibrate_312
  \/ ~RelayReady /\ calibrate_313
  \/ ~RelayReady /\ calibrate_314
  \/ ~RelayReady /\ calibrate_315
  \/ ~RelayReady /\ start_recording_329
  \/ ~RelayReady /\ stop_recording_353
  \/ ~RelayReady /\ stop_recording_356
  \/ ~RelayReady /\ set_freq_372
  \/ ~RelayReady /\ set_freq_373
  \/ ~RelayReady /\ set_samp_rate_391
  \/ ~RelayReady /\ set_samp_rate_393
  \/ ~RelayReady /\ set_samp_rate_394
  \/ ~RelayReady /\ quit_404
  \/ /\ ~RelayReady /\ main_pc = "606" /\ command_queue = <<>>
     /\ update_command_queue(ControlTexts)

SpecCmd == InitCmd /\ [][NextCmd]_vars

---------------------------------------------------------------------------
(* SpecRelay: the relay with its producers, which are the start-up, the    *)
(* commands that queue a parameter and the rotor loop at rest.             *)

RelayTexts ==
  { <<"q", "u", "i", "t">>,
    <<"f", "r", "e", "q", " ", "1", "4", "2", "0">> }

NextRelay ==
  \/ Startup
  \/ RelayGet
  \/ RelayCall
  \/ RelaySleep
  \/ relay_pc = "548" /\ RpcChanges
  \/ RotorSample
  \/ RotorPutAz
  \/ RotorPutEl
  \/ MainTake
  \/ set_freq_372
  \/ set_freq_373
  \/ quit_404
  \/ main_pc = "606" /\ command_queue = <<>> /\ update_command_queue(RelayTexts)

SpecRelay == Init /\ [][NextRelay]_vars

---------------------------------------------------------------------------
(* SpecRotor: the rotor loop under fair scheduling, with the commands that *)
(* set a fixed commanded position.                                         *)

\* the far corner of the limits, which is two polls away from stow on each
\* axis, the calibration position, stow, and a pair outside the limits
RotorTexts ==
  { <<"a", "z", "e", "l", " ", "6", "0", " ", "8", "0">>,
    <<"c", "a", "l">>,
    <<"s", "t", "o", "w">>,
    <<"a", "z", "e", "l", " ", "7", "0", " ", "3", "0">> }

NextRotor ==
  \/ Startup
  \/ RelayReady /\ RelayGet
  \/ RelayReady /\ RelayCall
  \/ RelayReady /\ RelaySleep
  \/ ~RelayReady /\ RotorSample
  \/ ~RelayReady /\ RotorPoll
  \/ ~RelayReady /\ RotorPutAz
  \/ ~RelayReady /\ RotorPutEl
  \/ Quiet /\ MainTake
  \/ Quiet /\ point_at_azel_242
  \/ Quiet /\ point_at_azel_243
  \/ Quiet /\ point_at_azel_244
  \/ Quiet /\ point_at_azel_248
  \/ Quiet /\ point_at_azel_249
  \/ Quiet /\ point_at_azel_250
  \/ Quiet /\ point_at_azel_253
  \/ Quiet /\ stow_288
  \/ Quiet /\ stow_289
  \/ Quiet /\ stow_290
  \/ Quiet /\ stow_291
  \/ Quiet /\ stow_292
  \/ Quiet /\ stow_293
  \/ /\ Quiet /\ main_pc = "606" /\ command_queue = <<>>
     /\ update_command_queue(RotorTexts)

\* the rotor loop and the relay are threads of their own, which the
\* interpreter's waiting does not keep from running
FairRotor ==
  /\ WF_vars(~RelayReady /\ update_rotor_status)
  /\ WF_vars(RelayReady /\ update_radio_settings)

SpecRotor == Init /\ [][NextRotor]_vars /\ FairRotor

---------------------------------------------------------------------------
(* SpecDriver: SpecRotor with a motor driver that reports validation       *)
(* errors.                                                                 *)

NextDriver ==
  \/ Startup
  \/ RelayReady /\ RelayGet
  \/ RelayReady /\ RelayCall
  \/ RelayReady /\ RelaySleep
  \/ ~RelayReady /\ RotorSample
  \/ ~RelayReady /\ RotorPoll
  \/ ~RelayReady /\ RotorPutAz
  \/ ~RelayReady /\ RotorPutEl
  \/ ~RelayReady /\ RotorSetFails
  \/ ~RelayReady /\ RotorGetFails
  \/ Quiet /\ MainTake
  \/ Quiet /\ point_at_azel_242
  \/ Quiet /\ point_at_azel_243
  \/ Quiet /\ point_at_azel_244
  \/ Quiet /\ point_at_azel_248
  \/ Quiet /\ point_at_azel_249
  \/ Quiet /\ point_at_azel_250
  \/ Quiet /\ point_at_azel_253
  \/ Quiet /\ stow_288
  \/ Quiet /\ stow_289
  \/ Quiet /\ stow_290
  \/ Quiet /\ stow_291
  \/ Quiet /\ stow_292
  \/ Quiet /\ stow_293
  \/ /\ Quiet /\ main_pc = "606" /\ command_queue = <<>>
     /\ update_command_queue(RotorTexts)

FairDriver ==
  /\ WF_vars(~RelayReady /\ (update_rotor_status \/ RotorSetFails \/ RotorGetFails))
  /\ WF_vars(RelayReady /\ update_radio_settings)

SpecDriver == Init /\ [][NextDriver]_vars /\ FairDriver

---------------------------------------------------------------------------
(* SpecStatus: the pointing commands without the scans, the ephemeris and  *)
(* rotor loops, and the status publisher.                                  *)

NextStatus ==
  \/ Startup
  \/ RelayReady /\ RelayGet
  \/ RelayReady /\ RelayCall
  \/ RelayReady /\ RelaySleep
  \/ ~RelayReady /\ RotorPutAz
  \/ ~RelayReady /\ RotorPutEl
  \/ Quiet /\ MainTake
  \/ Quiet /\ point_at_object_215
  \/ Quiet /\ point_at_object_216
  \/ Quiet /\ point_at_object_217
  \/ Quiet /\ point_at_object_219
  \/ Quiet /\ point_at_object_220
  \/ Quiet /\ point_at_object_221
  \/ Quiet /\ point_at_object_222
  \/ Quiet /\ point_at_object_225
  \/ Quiet /\ point_at_object_226
  \/ Quiet /\ point_at_azel_242
  \/ Quiet /\ point_at_azel_243
  \/ Quiet /\ point_at_azel_244
  \/ Quiet /\ point_at_azel_248
  \/ Quiet /\ point_at_azel_249
  \/ Quiet /\ point_at_azel_250
  \/ Quiet /\ point_at_azel_253
  \/ Quiet /\ point_at_offset_270
  \/ Quiet /\ point_at_offset_274
  \/ Quiet /\ point_at_offset_275
  \/ Quiet /\ point_at_offset_276
  \/ Quiet /\ point_at_offset_279
  \/ Quiet /\ stow_288
  \/ Quiet /\ stow_289
  \/ Quiet /\ stow_290
  \/ Quiet /\ stow_291
  \/ Quiet /\ stow_292
  \/ Quiet /\ stow_293
  \/ Quiet /\ EphRefresh
  \/ Quiet /\ EphCheck
  \/ Quiet /\ EphLookup
  \/ Quiet /\ EphAddOffsets
  \/ Quiet /\ EphWriteDestination
  \/ Quiet /\ EphWriteCmdLocation
  \/ Quiet /\ EphLogMovedOut
  \/ Quiet /\ EphClearTracking
  \/ Quiet /\ RotorSample
  \/ Quiet /\ RotorPoll
  \/ /\ Quiet /\ main_pc = "606" /\ command_queue = <<>>
     /\ update_command_queue(PlainTexts)
  \/ Quiet /\ update_status

SpecStatus == Init /\ [][NextStatus]_vars

---------------------------------------------------------------------------
(* SpecQueue: the command queue, with lines that arrive while a command    *)
(* is carried out.                                                         *)

\* a sleep, an unknown keyword, a missing argument, a move that waits for
\* the antenna, and a pair outside the limits
QueueTexts ==
  { <<"1", "0">>,
    <<"b", "o", "g", "u", "s">>,
    <<"f", "r", "e", "q">>,
    <<"c", "a", "l">>,
    <<"a", "z", "e", "l", " ", "7", "0", " ", "3", "0">> }

NextQueue ==
  \/ Startup
  \/ RelayReady /\ RelayGet
  \/ RelayReady /\ RelayCall
  \/ RelayReady /\ RelaySleep
  \/ ~RelayReady /\ RotorSample
  \/ ~RelayReady /\ RotorPoll
  \/ ~RelayReady /\ RotorPutAz
  \/ ~RelayReady /\ RotorPutEl
  \/ Quiet /\ MainTake
  \/ Quiet /\ MainNotIdentified
  \/ Quiet /\ MainExcept
  \/ Quiet /\ MainSleep
  \/ Quiet /\ point_at_azel_242
  \/ Quiet /\ point_at_azel_243
  \/ Quiet /\ point_at_azel_244
  \/ Quiet /\ point_at_azel_248
  \/ Quiet /\ point_at_azel_249
  \/ Quiet /\ point_at_azel_250
  \/ Quiet /\ point_at_azel_253
  \/ Quiet /\ update_command_queue(QueueTexts)

SpecQueue == Init /\ [][NextQueue]_vars

---------------------------------------------------------------------------
(* Properties of the pointing commands, checked under Spec.                *)

Logged(message) ==
  \E i \in DOMAIN command_error_logs : command_error_logs[i] = message

\* C1: under every interleaving of the interpreter, the ephemeris loop and
\* the rotor loop, the commanded position rotor_cmd_location is within the
\* configured bounds whenever it has been assigned, and so is the value the
\* rotor loop sampled and every pair it passed to set_azimuth_elevation.
C1_CommandedWithinBounds ==
  /\ InBounds(rotor_cmd_location)
  /\ InBounds(current_rotor_cmd_location)
  /\ InBounds(motor_cmd)

\* an offset request was rejected, and the rotor loop passed to the motor
\* an offset position that was accepted
C1_Witness ==
  /\ Logged("Offset Out of Bounds")
  /\ rotor_offsets # <<0, 0>>
  /\ rotor_cmd_location # stow_location
  /\ motor_cmd = rotor_cmd_location

\* C2: whenever the interpreter awaits a command (every pointing operation
\* has returned) and the ephemeris loop is not between its two writes,
\* rotor_cmd_location = rotor_destination + rotor_offsets, also after a
\* request that was rejected as out of bounds.
C2_CommandedIsDestinationPlusOffset ==
  main_pc = "606" /\ eph_pc # "434" =>
     rotor_cmd_location = add(rotor_destination, rotor_offsets)

\* the pointing operations return when asked for a target out of bounds
RejectsOnReturn ==
  \/ main_pc \in {"226", "253"}
  \/ main_pc = "279" /\ frame.caller = "srt_daemon_main"
  \/ main_pc \in {"173", "201"} /\ ~InBounds(frame.new_rotor_destination)

\* C3: when a pointing operation that was asked for a target outside the
\* bounds returns, the commanded position is within the bounds, a rejection
\* is in the log, and ephemeris_cmd_location is None.
C3_OutOfBoundsRejected ==
  [][ RejectsOnReturn /\ main_pc' = "606" =>
        /\ InBounds(rotor_cmd_location')
        /\ \E i \in DOMAIN command_error_logs' :
             command_error_logs'[i] \in {"Object Not in Motor Bounds",
                                         "Object at Not in Motor Bounds",
                                         "Offset Out of Bounds"}
        /\ ephemeris_cmd_location' = None ]_vars

\* C4: when stow returns, tracking is unset, the offsets are zero, the
\* destination and the commanded position are the stow position and the
\* observed position is in range of it.
C4_StowPostcondition ==
  [][ main_pc = "293" /\ main_pc' = "606" =>
        /\ ephemeris_cmd_location' = None
        /\ rotor_offsets' = <<0, 0>>
        /\ rotor_destination' = stow_location
        /\ rotor_cmd_location' = stow_location
        /\ azel_within_range(rotor_location', stow_location) ]_vars

\* C5: in every step in which the ephemeris loop assigns rotor_destination
\* or rotor_cmd_location, ephemeris_cmd_location is not None and names the
\* object whose position, with the offsets, is written.
C5_EphemerisWritesOnlyWhileTracking ==
  [][ /\ eph_pc = "433" /\ eph_pc' = "434" =>
           /\ ephemeris_cmd_location # None
           /\ rotor_destination' = ephemeris_locations[ephemeris_cmd_location]
      /\ eph_pc = "434" /\ eph_pc' # "434" =>
           /\ ephemeris_cmd_location # None
           /\ rotor_cmd_location' =
                add(ephemeris_locations[ephemeris_cmd_location], rotor_offsets)
    ]_vars

---------------------------------------------------------------------------
(* Properties of the control commands, checked under SpecCmd.              *)

\* C6: the step in which quit returns takes the main loop to the shutdown
\* sequence (line 680), and not back to awaiting a command.
C6_QuitLeavesTheLoop ==
  [][ main_pc = "404" => main_pc' = "680" ]_vars

\* C7: whatever command text is taken from the command queue, no exception
\* leaves srt_daemon_main: the main thread is never ended by one.
C7_NoCommandEndsTheMainThread == main_pc \notin Uncaught

---------------------------------------------------------------------------
(* Properties of the relay, checked under SpecRelay.                       *)

\* C8: a pair that the relay has taken off the queue is being forwarded, or
\* has been forwarded, as a set_<name>(value) call: no pair is lost.
C8_TakenPairIsForwarded ==
  relay_item # NoItem => relay_pc \in {"548", "549"}

\* C9, as stated: the relay never takes ("is_running", False) off the queue.
C9_RelayLeavesIsRunningFalse == relay_item # <<"is_running", FALSE>>

\* C9, amended: ("is_running", False) leaves the head of the queue only in
\* a step of the relay, which takes it for its call and leaves the main
\* thread where it is; from there the relay makes the call
\* set_is_running(False), which the endpoint accepts or refuses.
C9_RelayTakesIsRunningFalse ==
  [][ /\ ( /\ radio_queue # <<>>
           /\ Head(radio_queue) = <<"is_running", FALSE>>
           /\ radio_queue' = Tail(radio_queue) ) =>
             /\ relay_pc = "546" /\ relay_pc' = "548"
             /\ relay_item' = <<"is_running", FALSE>>
             /\ UNCHANGED main_vars
      /\ ( /\ relay_item = <<"is_running", FALSE>>
           /\ relay_pc = "548" /\ relay_pc' # "548" ) =>
             relay_pc' = IF rpc_up THEN "549" ELSE "ConnectionRefusedError"
    ]_vars

\* the relay has forwarded the entry that quit queued, and the main loop
\* awaits the next command
C9_Witness ==
  /\ relay_pc = "549"
  /\ relay_item = <<"is_running", FALSE>>
  /\ main_pc = "606"

\* C10: when the call of the relay meets an endpoint that refuses the
\* connection, the failure is appended to the error log and the relay goes
\* on to its next parameter.
C10_ConnectionFailureRecovered ==
  [][ relay_pc = "548" /\ ~rpc_up /\ relay_pc' # "548" =>
        /\ relay_pc' \in {"546", "549"}
        /\ Len(command_error_logs') = Len(command_error_logs) + 1 ]_vars

---------------------------------------------------------------------------
(* Properties of the end of the main loop, checked under SpecCmd.          *)

\* C11: whenever the main loop has been left, the commanded position is the
\* stow position and neither the raw nor the spectrum recorder is held.
C11_LoopLeftStowedAndNotRecording ==
  main_pc \in Uncaught \cup {"680"} =>
    /\ rotor_cmd_location = stow_location
    /\ radio_save_raw_task = "None"
    /\ radio_save_spec_task = "None"

---------------------------------------------------------------------------
(* Properties of the scans, checked under Spec.                            *)

InScan == frame.caller = "n_point_scan"

\* C12, as stated: every cell that n_point_scan presents for an object
\* within the bounds is accepted and commanded.
C12_EveryCellCommanded ==
  [][ /\ main_pc = "270" /\ main_pc' # "270" /\ InScan
      /\ InBounds(frame.new_rotor_destination)
      => main_pc' = "274" ]_vars

\* C12, amended: n_point_scan runs the cells 0..24 in order, with pairwise
\* distinct offsets, each the offset of its grid pair (i, j); a cell is
\* accepted exactly when the destination plus its offset is within the
\* bounds, and then the offsets and the commanded position are assigned and
\* the arrival awaited; a rejected cell is logged and changes nothing; when
\* the scan returns the offsets are (0, 0) and the object is tracked.
C12_ScanCells ==
  [][ /\ main_pc = "161" => frame.scan \in 0..(ScanCells - 1)
      /\ main_pc = "159" /\ main_pc' = "161" =>
           \A el \in {el_limits[1], ephemeris_locations[frame.object_id][2],
                       el_limits[2]} :
             \A c, d \in 0..(ScanCells - 1) :
               c # d => ScanOffsets(c, el) # ScanOffsets(d, el)
      /\ main_pc = "172" => frame.scan = ScanCells
      /\ main_pc = "270" /\ InScan /\ main_pc' # "270" =>
           /\ frame.arg = ScanOffsets(frame.scan, frame.new_rotor_destination[2])
           /\ main_pc' = IF InBounds(add(rotor_destination, frame.arg))
                         THEN "274" ELSE "279"
           /\ frame'.new_rotor_cmd_location = add(rotor_destination, frame.arg)
      /\ main_pc = "274" /\ InScan /\ main_pc' # "274" =>
           rotor_offsets' = frame.arg
      /\ main_pc = "275" /\ InScan /\ main_pc' # "275" =>
           rotor_cmd_location' = frame.new_rotor_cmd_location
      /\ main_pc = "276" /\ InScan /\ main_pc' # "276" =>
           /\ azel_within_range(rotor_location, rotor_cmd_location)
           /\ frame'.scan = frame.scan + 1
      /\ main_pc = "279" /\ InScan /\ main_pc' # "279" =>
           /\ command_error_logs' =
                Append(command_error_logs, "Offset Out of Bounds")
           /\ UNCHANGED pointing_vars
           /\ frame'.scan = frame.scan + 1
      /\ main_pc = "173" /\ main_pc' = "606" =>
           /\ rotor_offsets' = <<0, 0>>
           /\ ephemeris_cmd_location' = frame.object_id
    ]_vars

\* a scan of an object near the azimuth limit is about to return: cells
\* were rejected, and cells were accepted and reached
C12_Witness ==
  /\ main_pc = "173"
  /\ frame.scan = ScanCells
  /\ Logged("Offset Out of Bounds")
  /\ InBounds(rotor_destination)
  /\ rotor_cmd_location # rotor_destination
  /\ rotor_offsets = <<0, 0>>

InSwitch == frame.caller = "beam_switch"

\* C13: beam_switch queues the labels 1, 2, 3 at the start of its three
\* legs, in this order and whether or not the leg is made, and the label 0
\* after the third leg; no other step queues a beam_switch label; the
\* offsets are (0, 0) when the label 0 is queued and when beam_switch
\* returns.
C13_BeamSwitchLabels ==
  [][ /\ ( /\ Len(radio_queue') = Len(radio_queue) + 1
           /\ radio_queue'[Len(radio_queue')][1] = "beam_switch" ) =>
             \/ /\ main_pc = "191" /\ frame.scan \in 0..(BeamLegs - 1)
                /\ radio_queue'[Len(radio_queue')][2] = frame.scan + 1
             \/ /\ main_pc = "200" /\ frame.scan = BeamLegs
                /\ radio_queue'[Len(radio_queue')][2] = 0
      /\ main_pc # "191" /\ main_pc' = "191" =>
           frame'.scan = IF main_pc = "189" THEN 0 ELSE frame.scan + 1
      /\ main_pc = "191" /\ main_pc' # "191" =>
           /\ frame.scan \in 0..(BeamLegs - 1)
           /\ radio_queue' = Append(radio_queue, <<"beam_switch", frame.scan + 1>>)
      /\ main_pc # "199" /\ main_pc' = "199" => frame'.scan = BeamLegs
      /\ main_pc = "200" /\ main_pc' # "200" =>
           /\ rotor_offsets = <<0, 0>>
           /\ radio_queue' = Append(radio_queue, <<"beam_switch", 0>>)
      /\ main_pc = "201" /\ main_pc' = "606" => rotor_offsets' = <<0, 0>>
    ]_vars

\* the relay has forwarded the label 0 of a beam switch whose third leg
\* was made with an offset
C13_Witness ==
  /\ main_pc = "201"
  /\ relay_pc = "549"
  /\ relay_item = <<"beam_switch", 0>>
  /\ rotor_offsets = <<0, 0>>
  /\ rotor_cmd_location # rotor_destination

---------------------------------------------------------------------------
(* Properties of the radio commands, checked under SpecCmd.                *)

LstTexts ==
  { <<"l", "s", "t", ":", "1", "2", ":", "0", "0", ":", "0", "0">>,
    <<"l", "s", "t", " ", "1", "2", ":", "0", "0", ":", "0", "0">> }

\* C15: a command `lst HH:MM:SS` is not rejected as malformed; it makes the
\* interpreter sleep until the next occurrence of HH:MM:SS, a length of
\* more than 0 and at most 86400 seconds.
C15_LstSleepsUntilNextOccurrence ==
  [][ /\ main_pc = "606" /\ main_pc' # "606"
      /\ command_queue # <<>> /\ Head(command_queue) \in LstTexts
      => /\ main_pc' = "sleep"
         /\ frame'.arg[1] \in 1..86400 ]_vars

\* C16: with a driver that moves toward the last commanded pair on each
\* poll, and the rotor loop scheduled fairly, an observed position out of
\* range of the commanded one comes within range of it; at the outer check
\* (line 453) an out-of-range position makes the loop command the move, again
\* if it did before, and the inner loop is left only for the outer check.
C16_RotorConverges ==
  /\ ~Arrived ~> Arrived
  /\ [][ rotor_pc = "453" /\ rotor_pc' # "453" =>
           /\ current_rotor_cmd_location' = rotor_cmd_location
           /\ IF Arrived THEN rotor_pc' = "475" /\ UNCHANGED motor_cmd
              ELSE /\ rotor_pc' = "465"
                   /\ motor_cmd' = rotor_cmd_location
                   /\ UNCHANGED rotor_location ]_vars
  /\ [][ rotor_pc = "469" /\ rotor_pc' # "469" =>
           /\ rotor_pc' \in {"465", "453"}
           /\ rotor_pc' = "465" =>
                ~azel_within_range(rotor_location, current_rotor_cmd_location) ]_vars

\* the polling window ran out on the way to the far corner: the loop is back
\* at the outer check, the motor under way to the pair it was given
C16_Witness ==
  /\ rotor_pc = "453"
  /\ ~Arrived
  /\ rotor_cmd_location = <<60, 80>>
  /\ motor_cmd = rotor_cmd_location
  /\ motor_azel # stow_location

\* C17: a step of the ephemeris loop that finds an object tracked (line 423)
\* looks its position up and adds the offsets; with both pairs within the
\* bounds it writes them to rotor_destination and rotor_cmd_location, and
\* otherwise it leaves the two alone, appends one entry to the log and
\* clears ephemeris_cmd_location.
C17_TrackedStepWritesOrClears ==
  [][ /\ eph_pc = "423" /\ eph_pc' # "423" =>
           eph_pc' = IF ephemeris_cmd_location # None THEN "424" ELSE "417"
      /\ eph_pc = "424" /\ eph_pc' # "424" =>
           /\ eph_pc' = "427"
           /\ eph_frame'.new_rotor_destination =
                ephemeris_locations[ephemeris_cmd_location]
      /\ eph_pc = "427" /\ eph_pc' # "427" =>
           /\ eph_frame'.new_rotor_cmd_location =
                add(eph_frame.new_rotor_destination, rotor_offsets)
           /\ eph_pc' = IF /\ InBounds(eph_frame.new_rotor_destination)
                           /\ InBounds(add(eph_frame.new_rotor_destination,
                                           rotor_offsets))
                        THEN "433" ELSE "436"
      /\ eph_pc = "433" /\ eph_pc' # "433" =>
           /\ eph_pc' = "434"
           /\ rotor_destination' = eph_frame.new_rotor_destination
      /\ eph_pc = "434" /\ eph_pc' # "434" =>
           /\ eph_pc' = "417"
           /\ rotor_cmd_location' = eph_frame.new_rotor_cmd_location
      /\ eph_pc = "436" /\ eph_pc' # "436" =>
           /\ eph_pc' = "439"
           /\ command_error_logs' =
                Append(command_error_logs, "moved out of motor bounds")
           /\ UNCHANGED <<rotor_destination, rotor_cmd_location>>
      /\ eph_pc = "439" /\ eph_pc' # "439" =>
           /\ eph_pc' = "417"
           /\ ephemeris_cmd_location' = None
           /\ UNCHANGED <<rotor_destination, rotor_cmd_location,
                          command_error_logs>>
    ]_vars

\* C18: after the calibration task has finished or timed out, calibrate
\* loads the profile of calibration.json, queues cal_pwr and then
\* cal_values, and the main loop awaits the next command.
C18_CalibrateLoadsAndReturns ==
  [][ /\ main_pc = "306" /\ main_pc' # "306" => main_pc' = "309"
      /\ main_pc = "309" /\ main_pc' # "309" => main_pc' = "312"
      /\ main_pc = "312" /\ main_pc' # "312" => main_pc' = "313"
      /\ main_pc = "313" /\ main_pc' # "313" =>
           /\ main_pc' = "314"
           /\ radio_queue' = Append(radio_queue, <<"cal_pwr", cal_power>>)
      /\ main_pc = "314" /\ main_pc' # "314" =>
           /\ main_pc' = "315"
           /\ radio_queue' = Append(radio_queue, <<"cal_values", cal_values>>)
      /\ main_pc = "315" /\ main_pc' # "315" => main_pc' = "606"
    ]_vars

\* C19: the command queue changes only by a line arriving at its tail
\* (line 497) or by the interpreter taking its head (line 606); the
\* interpreter carries out the call for the head it took, and takes a
\* command only when it is at line 606, that is, when the operation for the
\* command before, its waiting and sleeping included, has returned.
C19_CommandsTakenInOrderOneAtATime ==
  [][ /\ command_queue' # command_queue =>
           \/ /\ Len(command_queue') = Len(command_queue) + 1
              /\ SubSeq(command_queue', 1, Len(command_queue)) = command_queue
              /\ UNCHANGED main_vars
           \/ /\ main_pc = "606"
              /\ command_queue # <<>>
              /\ command_queue' = Tail(command_queue)
              /\ LET call == Interpret(Head(command_queue),
                                       DOMAIN ephemeris_locations)
                 IN  /\ main_pc' = EntryPc(call.op)
                     /\ call.op # "continue" =>
                          frame' = [call EXCEPT !.caller = "srt_daemon_main"]
      /\ main_pc = "606" /\ main_pc' # "606" =>
           command_queue # <<>> /\ command_queue' = Tail(command_queue)
    ]_vars

\* the line `10` is being carried out, the interpreter asleep, while the
\* line `cal` that arrived after it waits in the queue
C19_Witness ==
  /\ main_pc = "sleep"
  /\ frame.op = "sleep"
  /\ command_queue = << <<"c", "a", "l">> >>

\* C20: when point_at_offset(az_off, el_off), called for an `offset`
\* command with an in-bounds result, returns, rotor_offsets is
\* (az_off, el_off) and rotor_cmd_location is rotor_destination plus
\* (az_off, el_off).
C20_OffsetSetsCommandedFromDestination ==
  [][ /\ main_pc = "276" /\ main_pc' = "606"
      /\ frame.caller = "srt_daemon_main"
      => /\ rotor_offsets' = frame.arg
         /\ rotor_cmd_location' = add(rotor_destination', frame.arg) ]_vars

---------------------------------------------------------------------------
(* Properties of the rotor loop with a failing driver, under SpecDriver.   *)

\* C21: an AssertionError or ValueError of the motor driver in the rotor
\* loop is logged and the loop starts its next iteration: the thread stays
\* in its loop, the failure changes none of rotor_destination,
\* rotor_offsets, rotor_cmd_location, ephemeris_cmd_location and
\* rotor_location, and with the driver accepting calls again the move is
\* made: the observed position comes within range of the commanded one.
C21_DriverErrorLoggedAndRetried ==
  /\ [](rotor_pc \in {"not started", "453", "465", "466", "469", "475", "476"})
  /\ [][ /\ rotor_pc = "465" /\ rotor_pc' = "453" =>
              DriverErrorCount' = DriverErrorCount + 1
         /\ DriverErrorCount' # DriverErrorCount =>
              /\ rotor_pc \in {"453", "465"} /\ rotor_pc' = "453"
              /\ \E e \in DriverErrors :
                   command_error_logs' = Append(command_error_logs, e)
              /\ UNCHANGED <<pointing_vars, rotor_location, motor_cmd>>
       ]_vars
  /\ ~Arrived ~> Arrived

\* the driver has reported two errors, the last of them after the command
\* was taken; the loop is at its outer check, the motor under way to the
\* far corner
C21_Witness ==
  /\ rotor_pc = "453"
  /\ ~Arrived
  /\ rotor_cmd_location = <<60, 80>>
  /\ motor_cmd = rotor_cmd_location
  /\ motor_azel # stow_location
  /\ DriverErrorCount = MaxDriverErrors
  /\ command_error_logs[Len(command_error_logs)] \in DriverErrors

---------------------------------------------------------------------------
(* Properties of the status publisher, checked under SpecStatus.           *)

\* C22: rotor_location changes only in a step of the rotor loop that
\* assigns it the position read from the motor driver (lines 465 and 474);
\* a step of the status publisher sends the dictionary of the current
\* state and changes neither rotor_location nor rotor_destination,
\* rotor_offsets, rotor_cmd_location or ephemeris_cmd_location.
C22_ObservedPositionWrittenByRotorLoopOnly ==
  [][ /\ rotor_location' # rotor_location =>
           /\ rotor_pc \in {"453", "465"}
           /\ rotor_pc' \in {"475", "466"}
           /\ rotor_location' = motor_azel'
           /\ UNCHANGED <<pointing_vars, main_vars, eph_vars, relay_vars, status>>
      /\ status' # status =>
           /\ status' = StatusNow
           /\ UNCHANGED <<pointing_vars, rotor_vars, radio_vars, main_vars,
                          eph_vars, relay_vars, radio_queue, command_queue,
                          command_error_logs>>
    ]_vars

\* a status was sent while the antenna was under way to the Sun, and the
\* rotor loop has read a new position since
C22_Witness ==
  /\ status # None
  /\ status.motor_cmd_azel = SkyAt(0)[Sun]
  /\ status.motor_azel = stow_location
  /\ rotor_location = SkyAt(0)[Sun]
  /\ ephemeris_cmd_location = Sun

---------------------------------------------------------------------------
(* The recorder handles after a change of the sample rate, under SpecCmd.  *)

\* C23: radio_save_raw_task holds a recorder only while that recorder runs:
\* it is None or a started task, never a task that was terminated, so that
\* a halted recorder does not count as active for `record` and `roff`.
C23_RawHandleOnlyWhileRunning ==
  radio_save_raw_task \in {"None", "started"}

---------------------------------------------------------------------------
(* The ephemeris loop against the interpreter, checked under Spec.         *)

\* C24: under every interleaving with the command interpreter the
\* ephemeris loop stays in its loop: no exception ends the thread, also
\* when a command clears ephemeris_cmd_location between the test of line
\* 423 and the lookup of lines 424-426.
C24_EphemerisLoopNeverEndsAbnormally ==
  eph_pc \in {"not started", "417", "423", "424", "427", "433", "434",
              "436", "439"}

====
